---- MODULE Spec2Model ----
(***************************************************************************)
(* The label-indexed store of zebra (src/labelstore/labelstore.go).        *)
(*                                                                         *)
(* LabelStore keeps a primary index  uuids : id -> resource  and a         *)
(* secondary index  resources : label key -> ResourceMap (label value ->   *)
(* list of resources), guarded by one sync.RWMutex.                        *)
(*                                                                         *)
(* Spec      is the engine driven by one caller: every public method is    *)
(*           one atomic action, and ret records the call that was made     *)
(*           last and what it returned.                                    *)
(* SpecSeeded is Spec begun by NewLabelStore over a populated snapshot.     *)
(* SpecConc  is the engine driven by several goroutines: every method is   *)
(*           split at its lock operations and at each map access.          *)
(* SpecFair  is SpecConc restricted to the methods that take the lock,     *)
(*           with the fairness of the Go scheduler and of sync.RWMutex.    *)
(*                                                                         *)
(* zebra.Resource, zebra.ResourceMap and zebra.ResourceList are defined    *)
(* in the parent package, which is not part of src/; what the model needs  *)
(* of them (ResourceMapAdd, ResourceMapDelete, CopyResourceList) follows   *)
(* spec.md sections 2 to 4.                                                *)
(***************************************************************************)
EXTENDS Naturals, Integers, Sequences, FiniteSets, TLC

\* ------------------------------------------------------------------ bounds
\* Number of resources of ResourcePool the callers hand to the engine.
NumResources == 5
\* Longest list of candidate values of a query.
MaxValues == 2
\* Number of goroutines calling the engine in SpecConc.
NumThreads == 2
\* Most resources of a snapshot NewLabelStore is given in SpecSeeded.
MaxSnapshot == 2

Keys == {"rack", "zone"}
Vals == {"7", "8"}
Threads == 1..NumThreads

\* ------------------------------------------------- zebra.Resource (external)
\* A resource reference: GetID(), GetType(), and GetLabels() as a map from
\* label key to label value; valid tells whether Validate accepts it.
Resource(id, labels) == [id |-> id, type |-> "server", labels |-> labels, valid |-> TRUE]

\* The resources of the callers: two identifiers; under "a" references that
\* differ in every label or in one of two labels; under "b" references that
\* share a bucket with "a", that sit in the other bucket of the same key,
\* and that carry no label.
ResourcePool ==
    << Resource("a", [rack |-> "7"]),
       Resource("a", [rack |-> "8", zone |-> "7"]),
       Resource("b", [rack |-> "7"]),
       Resource("b", [rack |-> "8"]),
       Resource("a", [rack |-> "8", zone |-> "8"]),
       Resource("b", <<>>) >>

Resources == {ResourcePool[i] : i \in 1..NumResources}

\* Resources that fail their validation: one with the identifier and labels of
\* a resource of the pool, one with an identifier of its own.
InvalidResources ==
    {[Resource("a", [rack |-> "7"]) EXCEPT !.valid = FALSE],
     [Resource("c", [zone |-> "8"]) EXCEPT !.valid = FALSE]}

NoResource == [id |-> "", type |-> "", labels |-> <<>>, valid |-> FALSE]

\* ------------------------------------------------------ Operator and Query
MatchEqual == 0
MatchNotEqual == 1
MatchIn == 2
MatchNotIn == 3

\* Operator is a uint8: one value outside the four constants stands for the rest.
Operators == {MatchEqual, MatchNotEqual, MatchIn, MatchNotIn, MatchNotIn + 1}

ValueLists == UNION {[1..n -> Vals] : n \in 0..MaxValues}

\* One key that is never a label of any resource, next to the label keys.
QueryKeys == Keys \cup {"nonexistent-key"}

Queries == [Op : Operators, Key : QueryKeys, Values : ValueLists]

NoQuery == [Op |-> MatchEqual, Key |-> "", Values |-> <<>>]

\* ------------------------------------------------------------ return values
Nil == "nil"
ErrCreateExists == "ErrCreateExists"
ErrUpdateNoExist == "ErrUpdateNoExist"
\* The error of a failed res.Validate.
ErrValidate == "ErrValidate"
\* A Go runtime panic (nil pointer dereference, assignment to entry in nil map).
Panic == "panic"
\* A nil *zebra.ResourceMap returned by Query.
NilMap == "nilmap"

EmptyMap == <<>>

\* -------------------------------------------------- zebra.ResourceMap (external)
\* ResourceMap.Add(res, key): the bucket of key is created when absent and
\* res becomes a member of it.
ResourceMapAdd(rm, res, key) ==
    [v \in DOMAIN rm \cup {key} |->
        IF v = key
        THEN (IF key \in DOMAIN rm THEN rm[key] ELSE {}) \cup {res}
        ELSE rm[v]]

\* ResourceMap.Delete(res, key): the resource with res's identifier leaves the
\* bucket of key; the bucket stays, possibly empty.
ResourceMapDelete(rm, res, key) ==
    IF key \in DOMAIN rm
    THEN [rm EXCEPT ![key] = {x \in @ : x.id # res.id}]
    ELSE rm

\* zebra.CopyResourceList(dest, src): dest receives the members of src.
CopyResourceList(dest, src) == dest \cup src

\* All resources of a ResourceMap, whatever their bucket.
Flat(rm) == UNION {rm[k] : k \in DOMAIN rm}

\* res.Validate(context.Background())
Validate(res) == IF res.valid THEN Nil ELSE ErrValidate

\* --------------------------------------------------------------- LabelStore
VARIABLES
    uuids,      \* ls.uuids: id -> resource
    resources,  \* ls.resources: label key -> (label value -> set of resources)
    mapsNil,    \* TRUE when ls.uuids and ls.resources are nil (after Wipe)
    ret,        \* Spec: the last call and its result
    pc,         \* SpecConc: position of each goroutine
    call,       \* SpecConc: the call each goroutine is executing
    local,      \* SpecConc: the local variables of each goroutine
    writer,     \* SpecConc: holder of ls.lock.Lock(), or 0
    readers     \* SpecConc: holders of ls.lock.RLock()

vars == <<uuids, resources, mapsNil, ret, pc, call, local, writer, readers>>
store == <<uuids, resources, mapsNil>>
conc == <<pc, call, local, writer, readers>>

\* The three fields of the engine as one value.
State(u, r, n) == [uuids |-> u, resources |-> r, mapsNil |-> n, err |-> Nil]

\* find: whether resID is a key of ls.uuids (err == nil).
find(u, resID) == resID \in DOMAIN u

\* isIn: whether val occurs in list.
isIn(val, list) == \E i \in 1..Len(list) : list[i] = val

\* createLabel with the add inside the nil check: a key that already has a
\* bucket map receives nothing.
createLabel_onlyNewKey(r, res, label) ==
    IF label \in DOMAIN r THEN r
    ELSE [k \in DOMAIN r \cup {label} |->
            IF k = label THEN ResourceMapAdd(EmptyMap, res, res.labels[label]) ELSE r[k]]

\* One iteration of the loop of create: bucket map of label made when absent,
\* then res added under its value.
createLabel(r, res, label) ==
    [k \in DOMAIN r \cup {label} |->
        IF k = label
        THEN ResourceMapAdd(IF label \in DOMAIN r THEN r[label] ELSE EmptyMap,
                            res, res.labels[label])
        ELSE r[k]]

\* ls.resources[label] = zebra.NewResourceMap(ls.factory): the key with a
\* ResourceMap that has no bucket yet.
newLabelMap(r, label) ==
    [k \in DOMAIN r \cup {label} |-> IF k = label THEN EmptyMap ELSE r[k]]

\* One iteration of the loop of delete.
deleteLabel(r, res, label) ==
    IF label \in DOMAIN r
    THEN [r EXCEPT ![label] = ResourceMapDelete(@, res, res.labels[label])]
    ELSE r

RECURSIVE createLabels(_, _, _)
createLabels(r, res, labels) ==
    IF labels = {} THEN r
    ELSE LET l == CHOOSE x \in labels : TRUE
         IN createLabels(createLabel(r, res, l), res, labels \ {l})

RECURSIVE deleteLabels(_, _, _)
deleteLabels(r, res, labels) ==
    IF labels = {} THEN r
    ELSE LET l == CHOOSE x \in labels : TRUE
         IN deleteLabels(deleteLabel(r, res, l), res, labels \ {l})

\* ls.uuids[res.GetID()] = res
putUuid(u, res) ==
    [i \in DOMAIN u \cup {res.id} |-> IF i = res.id THEN res ELSE u[i]]

\* create without the check for an existing identifier.
create_noExistsCheck(st, res) ==
    IF st.mapsNil THEN [st EXCEPT !.err = Panic]
    ELSE [st EXCEPT !.uuids = putUuid(st.uuids, res),
                    !.resources = createLabels(st.resources, res, DOMAIN res.labels),
                    !.err = Nil]

\* A guard that lets every resource pass.
invalid_never(res) == FALSE

\* if err := res.Validate(context.Background()); err != nil
invalid(res) == Validate(res) # Nil

\* create, called with the write lock held.
create(st, res) ==
    IF find(st.uuids, res.id) THEN [st EXCEPT !.err = ErrCreateExists]
    ELSE IF st.mapsNil THEN [st EXCEPT !.err = Panic]
    ELSE [st EXCEPT !.uuids = putUuid(st.uuids, res),
                    !.resources = createLabels(st.resources, res, DOMAIN res.labels),
                    !.err = Nil]

\* delete that reports an identifier find does not find.
delete_errNoExist(st, res) ==
    IF ~find(st.uuids, res.id) THEN [st EXCEPT !.err = ErrUpdateNoExist]
    ELSE [st EXCEPT !.resources = deleteLabels(st.resources, res, DOMAIN res.labels),
                    !.err = Nil]

\* delete, called with the write lock held.
delete(st, res) ==
    IF ~find(st.uuids, res.id) THEN [st EXCEPT !.err = Nil]
    ELSE [st EXCEPT !.resources = deleteLabels(st.resources, res, DOMAIN res.labels),
                    !.err = Nil]

\* Update that stores the resource when find does not find its identifier.
update_upsert(st, res) ==
    IF ~find(st.uuids, res.id) THEN create(st, res)
    ELSE LET oldRes == st.uuids[res.id]
             deleted == delete(st, oldRes)
             created == create(deleted, res)
         IN [created EXCEPT !.err = Nil]

\* The body of Update after validation.
update(st, res) ==
    IF ~find(st.uuids, res.id) THEN [st EXCEPT !.err = ErrUpdateNoExist]
    ELSE LET oldRes == st.uuids[res.id]
             deleted == delete(st, oldRes)
             created == create(deleted, res)
         IN [created EXCEPT !.err = Nil]

\* results.Add(res, res.GetType()) for every res of a bucket.
addAll(results, bucket) ==
    [t \in DOMAIN results \cup {x.type : x \in bucket} |->
        (IF t \in DOMAIN results THEN results[t] ELSE {})
            \cup {x \in bucket : x.type = t}]

\* Whether the read ls.resources[key].Resources[val].Resources dereferences nil.
bucketFaults(r, key, val) == key \notin DOMAIN r \/ val \notin DOMAIN r[key]

RECURSIVE matchIn(_, _, _, _)
\* The inVals loop of labelMatch from position i on; Panic when a bucket read faults.
matchIn(r, query, i, results) ==
    IF i > Len(query.Values) THEN [err |-> Nil, out |-> results]
    ELSE IF bucketFaults(r, query.Key, query.Values[i]) THEN [err |-> Panic, out |-> EmptyMap]
    ELSE matchIn(r, query, i + 1, addAll(results, r[query.Key][query.Values[i]]))

RECURSIVE matchNotIn(_, _, _, _)
\* The range loop of labelMatch over the buckets vs of an indexed key.
matchNotIn(r, query, vs, results) ==
    IF vs = {} THEN [err |-> Nil, out |-> results]
    ELSE LET val == CHOOSE x \in vs : TRUE
         IN matchNotIn(r, query, vs \ {val},
                       IF ~isIn(val, query.Values)
                       THEN addAll(results, r[query.Key][val])
                       ELSE results)

labelMatch(r, query, inVals) ==
    IF inVals THEN matchIn(r, query, 1, EmptyMap)
    ELSE IF query.Key \notin DOMAIN r THEN [err |-> Panic, out |-> EmptyMap]
    ELSE matchNotIn(r, query, DOMAIN r[query.Key], EmptyMap)

\* The switch of Query without the length checks of MatchEqual and MatchNotEqual.
queryResult_noLenCheck(r, query) ==
    CASE query.Op = MatchEqual -> labelMatch(r, query, TRUE)
      [] query.Op = MatchIn -> labelMatch(r, query, TRUE)
      [] query.Op = MatchNotEqual -> labelMatch(r, query, FALSE)
      [] query.Op = MatchNotIn -> labelMatch(r, query, FALSE)
      [] OTHER -> [err |-> NilMap, out |-> EmptyMap]

\* The switch of Query.
queryResult(r, query) ==
    CASE query.Op = MatchEqual ->
            IF Len(query.Values) # 1 THEN [err |-> NilMap, out |-> EmptyMap]
            ELSE labelMatch(r, query, TRUE)
      [] query.Op = MatchIn -> labelMatch(r, query, TRUE)
      [] query.Op = MatchNotEqual ->
            IF Len(query.Values) # 1 THEN [err |-> NilMap, out |-> EmptyMap]
            ELSE labelMatch(r, query, FALSE)
      [] query.Op = MatchNotIn -> labelMatch(r, query, FALSE)
      [] OTHER -> [err |-> NilMap, out |-> EmptyMap]

\* key := label + " = " + val
loadKey(label, val) == label \o " = " \o val

\* The export built by Load: one entry per bucket of the secondary index.
loadResult(r) ==
    LET pairs == {<<k, v>> \in Keys \X Vals : k \in DOMAIN r /\ v \in DOMAIN r[k]}
    IN [s \in {loadKey(p[1], p[2]) : p \in pairs} |->
          LET p == CHOOSE x \in pairs : loadKey(x[1], x[2]) = s
          IN CopyResourceList({}, r[p[1]][p[2]])]

\* makeLabelMap: the secondary index of a snapshot.
RECURSIVE makeLabelMap(_)
makeLabelMap(snapshot) ==
    IF snapshot = {} THEN EmptyMap
    ELSE LET res == CHOOSE x \in snapshot : TRUE
         IN createLabels(makeLabelMap(snapshot \ {res}), res, DOMAIN res.labels)

\* ---------------------------------------------------------------- Spec
\* Whether res is a member of the bucket of each of its labels, and has one.
indexed(r, res) ==
    /\ DOMAIN res.labels # {}
    /\ \A k \in DOMAIN res.labels :
          /\ k \in DOMAIN r
          /\ res.labels[k] \in DOMAIN r[k]
          /\ res \in r[k][res.labels[k]]

\* The record of a call: its arguments, what find said of the argument's
\* identifier when the call began (found, old, indexed), and what it returned.
Ret(op, res, query, err, out) ==
    [op |-> op, res |-> res, query |-> query,
     found |-> find(uuids, res.id),
     old |-> IF find(uuids, res.id) THEN uuids[res.id] ELSE NoResource,
     indexed |-> indexed(resources, res),
     err |-> err, out |-> out]

NoCall ==
    [op |-> "New", res |-> NoResource, query |-> NoQuery, found |-> FALSE,
     old |-> NoResource, indexed |-> FALSE, err |-> Nil, out |-> EmptyMap]

\* A call of a goroutine of SpecConc.
ConcCall(op, res, query) == [op |-> op, res |-> res, query |-> query]

NoConcCall == ConcCall("New", NoResource, NoQuery)

\* The local variables of a goroutine inside a method:
\*   labels  the labels the loop of create or delete has still to visit
\*   label   create: the label of the iteration that has made the key's
\*           ResourceMap and has still to add the resource
\*   oldRes  Update's oldRes
\*   i       labelMatch: next index into query.Values; 0 before the range begins
\*   todo    labelMatch: the bucket values the range over the key has still to visit
\*   snap    labelMatch: the ResourceMap the range walks once ls.resources was replaced;
\*           Update: the secondary index when the update began
\*   detached whether the range walks snap
\*   err, out the result
\*   raced   whether labelMatch read the index while a goroutine held the write lock
\*   sawAbsent whether labelMatch read a bucket that held the resource when an
\*           Update began and does not hold it while that Update is in progress
NoLocal ==
    [labels |-> {}, label |-> "", oldRes |-> NoResource, i |-> 0, todo |-> {}, snap |-> EmptyMap,
     detached |-> FALSE, err |-> Nil, out |-> EmptyMap, raced |-> FALSE,
     sawAbsent |-> FALSE]

\* NewLabelStore(resources) over a ResourceMap that holds no resource.
Init ==
    /\ resources = makeLabelMap({})
    /\ uuids = <<>>
    /\ mapsNil = FALSE
    /\ ret = NoCall
    /\ pc = [t \in Threads |-> "idle"]
    /\ call = [t \in Threads |-> NoConcCall]
    /\ local = [t \in Threads |-> NoLocal]
    /\ writer = 0
    /\ readers = {}

Install(st) ==
    /\ uuids' = st.uuids
    /\ resources' = st.resources
    /\ mapsNil' = st.mapsNil

Initialize ==
    /\ ret' = Ret("Initialize", NoResource, NoQuery, Nil, EmptyMap)
    /\ UNCHANGED <<store, conc>>

Wipe ==
    /\ uuids' = <<>>
    /\ resources' = <<>>
    /\ mapsNil' = TRUE
    /\ ret' = Ret("Wipe", NoResource, NoQuery, Nil, EmptyMap)
    /\ UNCHANGED conc

Clear ==
    /\ uuids' = <<>>
    /\ resources' = <<>>
    /\ mapsNil' = FALSE
    /\ ret' = Ret("Clear", NoResource, NoQuery, Nil, EmptyMap)
    /\ UNCHANGED conc

Load ==
    /\ ret' = Ret("Load", NoResource, NoQuery, Nil, loadResult(resources))
    /\ UNCHANGED <<store, conc>>

Create(res) ==
    LET st == IF invalid(res)
              THEN [State(uuids, resources, mapsNil) EXCEPT !.err = Validate(res)]
              ELSE create(State(uuids, resources, mapsNil), res)
    IN /\ Install(st)
       /\ ret' = Ret("Create", res, NoQuery, st.err, EmptyMap)
       /\ UNCHANGED conc

Update(res) ==
    LET st == IF invalid(res)
              THEN [State(uuids, resources, mapsNil) EXCEPT !.err = Validate(res)]
              ELSE update(State(uuids, resources, mapsNil), res)
    IN /\ Install(st)
       /\ ret' = Ret("Update", res, NoQuery, st.err, EmptyMap)
       /\ UNCHANGED conc

Delete(res) ==
    LET st == IF invalid(res)
              THEN [State(uuids, resources, mapsNil) EXCEPT !.err = Validate(res)]
              ELSE delete(State(uuids, resources, mapsNil), res)
    IN /\ Install(st)
       /\ ret' = Ret("Delete", res, NoQuery, st.err, EmptyMap)
       /\ UNCHANGED conc

Query(query) ==
    LET result == queryResult(resources, query)
    IN /\ ret' = Ret("Query", NoResource, query, result.err, result.out)
       /\ UNCHANGED <<store, conc>>

Next ==
    \/ Initialize
    \/ Wipe
    \/ Clear
    \/ Load
    \/ \E res \in Resources \cup InvalidResources : Create(res)
    \/ \E res \in Resources \cup InvalidResources : Update(res)
    \/ \E res \in Resources \cup InvalidResources : Delete(res)
    \/ \E query \in Queries : Query(query)

Spec == Init /\ [][Next]_vars

\* ------------------------------------------------------------ SpecSeeded
\* The snapshots NewLabelStore is given: at most MaxSnapshot resources with
\* distinct identifiers.
Snapshots ==
    {snap \in SUBSET Resources :
        /\ Cardinality(snap) <= MaxSnapshot
        /\ \A x, y \in snap : x.id = y.id => x = y}

\* NewLabelStore(resources) over a snapshot; ret.out records the ResourceMap
\* the constructor was given.
InitSeeded ==
    \E snapshot \in Snapshots :
        /\ resources = makeLabelMap(snapshot)
        /\ uuids = <<>>
        /\ mapsNil = FALSE
        /\ ret = [NoCall EXCEPT !.out = addAll(EmptyMap, snapshot)]
        /\ pc = [t \in Threads |-> "idle"]
        /\ call = [t \in Threads |-> NoConcCall]
        /\ local = [t \in Threads |-> NoLocal]
        /\ writer = 0
        /\ readers = {}

SpecSeeded == InitSeeded /\ [][Next]_vars

\* ------------------------------------------------------------- SpecConc
\* The queries the goroutines of SpecConc make: one of each walk of
\* labelMatch, and one the switch of Query rejects.
ConcQueries ==
    {[Op |-> MatchEqual, Key |-> "rack", Values |-> <<"8">>],
     [Op |-> MatchNotIn, Key |-> "zone", Values |-> <<"8">>],
     [Op |-> MatchNotEqual, Key |-> "zone", Values |-> <<>>]}

\* The calls of Create, Update, Delete, Clear and Wipe: the first reference is
\* created and deleted, the second replaces it; each of Create, Update and
\* Delete is also given a reference that fails its validation: Create one with
\* an identifier of its own, Update and Delete one with the identifier and
\* labels of a reference that can be stored.
ConcWrites ==
    {ConcCall("Create", Resource("a", [rack |-> "8", zone |-> "7"]), NoQuery),
     ConcCall("Update", Resource("a", [rack |-> "8", zone |-> "8"]), NoQuery),
     ConcCall("Delete", Resource("a", [rack |-> "8", zone |-> "7"]), NoQuery),
     ConcCall("Create", [Resource("c", [zone |-> "8"]) EXCEPT !.valid = FALSE], NoQuery),
     ConcCall("Update", [Resource("a", [rack |-> "8", zone |-> "8"]) EXCEPT !.valid = FALSE],
              NoQuery),
     ConcCall("Delete", [Resource("a", [rack |-> "8", zone |-> "7"]) EXCEPT !.valid = FALSE],
              NoQuery),
     ConcCall("Clear", NoResource, NoQuery),
     ConcCall("Wipe", NoResource, NoQuery)}

\* The first switch of Query: the cases that return nil.
invalidQuery(query) ==
    \/ query.Op \notin {MatchEqual, MatchNotEqual, MatchIn, MatchNotIn}
    \/ query.Op \in {MatchEqual, MatchNotEqual} /\ Len(query.Values) # 1

\* The inVals argument Query passes to labelMatch.
inVals(query) == query.Op \in {MatchEqual, MatchIn}

\* Whether goroutine t is inside the range of labelMatch over the buckets of a key.
InRange(t) ==
    pc[t] = "walk" /\ ~inVals(call[t].query) /\ local[t].i = 1

\* Whether an Update that found its identifier holds the write lock and has
\* begun to delete the old entry, with the bucket (k, v) as read now lacking
\* the resource it held when the Update began.
absentSeen(k, v, bucket) ==
    \E u \in Threads :
        /\ writer = u
        /\ call[u].op = "Update"
        /\ pc[u] \in {"deleteLoop", "create", "createLoop", "createAdd", "unlock"}
        /\ k \in DOMAIN local[u].snap
        /\ v \in DOMAIN local[u].snap[k]
        /\ \E x \in local[u].snap[k][v] : x.id = call[u].res.id
        /\ ~\E x \in bucket : x.id = call[u].res.id

\* What is left of the local variables when the method has returned: the
\* result, and what its reads met.
returned(l) ==
    [NoLocal EXCEPT !.err = l.err, !.out = l.out, !.raced = l.raced,
                    !.sawAbsent = l.sawAbsent]

\* Create, Update, Delete: res.Validate, and the return of its error; these
\* and Clear, Wipe: up to ls.lock.Lock().
BeginWrite(t, c) ==
    /\ pc[t] = "idle"
    /\ call' = [call EXCEPT ![t] = c]
    /\ IF c.op \in {"Create", "Update", "Delete"} /\ invalid(c.res)
       THEN /\ local' = [local EXCEPT ![t] = [NoLocal EXCEPT !.err = Validate(c.res)]]
            /\ pc' = pc
       ELSE /\ local' = [local EXCEPT ![t] = NoLocal]
            /\ pc' = [pc EXCEPT ![t] = "lock"]
    /\ UNCHANGED <<store, ret, writer, readers>>

\* Load up to ls.lock.RLock().
BeginLoad(t) ==
    /\ pc[t] = "idle"
    /\ call' = [call EXCEPT ![t] = ConcCall("Load", NoResource, NoQuery)]
    /\ local' = [local EXCEPT ![t] = NoLocal]
    /\ pc' = [pc EXCEPT ![t] = "rlock"]
    /\ UNCHANGED <<store, ret, writer, readers>>

\* Initialize returns nil at once.
CallInitialize(t) ==
    /\ pc[t] = "idle"
    /\ call' = [call EXCEPT ![t] = ConcCall("Initialize", NoResource, NoQuery)]
    /\ local' = [local EXCEPT ![t] = NoLocal]
    /\ UNCHANGED <<store, ret, pc, writer, readers>>

\* Query: the switch; labelMatch begins with empty results and no lock taken.
BeginQuery(t, query) ==
    /\ pc[t] = "idle"
    /\ call' = [call EXCEPT ![t] = ConcCall("Query", NoResource, query)]
    /\ IF invalidQuery(query)
       THEN /\ local' = [local EXCEPT ![t] = [NoLocal EXCEPT !.err = NilMap]]
            /\ pc' = pc
       ELSE /\ local' = [local EXCEPT ![t] =
                            [NoLocal EXCEPT !.i = IF inVals(query) THEN 1 ELSE 0]]
            /\ pc' = [pc EXCEPT ![t] = "walk"]
    /\ UNCHANGED <<store, ret, writer, readers>>

\* The position of a method once it holds the write lock.
locked(t) ==
    CASE call[t].op = "Create" -> "create"
      [] call[t].op = "Update" -> "update"
      [] call[t].op = "Delete" -> "delete"
      [] call[t].op = "Clear" -> "clear"
      [] call[t].op = "Wipe" -> "wipe"

\* Whether a goroutine has the writers' mutex of the sync.RWMutex: it holds the
\* write lock, or has announced itself and waits for the readers to leave.
WriterPending == writer # 0 \/ \E x \in Threads : pc[x] = "drain"

\* ls.lock.Lock(): the writers' mutex is taken and new readers are held off;
\* the lock is held at once when no reader holds it.
Lock(t) ==
    /\ pc[t] = "lock"
    /\ ~WriterPending
    /\ IF readers = {}
       THEN /\ writer' = t
            /\ pc' = [pc EXCEPT ![t] = locked(t)]
       ELSE /\ writer' = writer
            /\ pc' = [pc EXCEPT ![t] = "drain"]
    /\ UNCHANGED <<store, ret, call, local, readers>>

\* ls.lock.Lock(): the last reader has left.
Drained(t) ==
    /\ pc[t] = "drain"
    /\ readers = {}
    /\ writer' = t
    /\ pc' = [pc EXCEPT ![t] = locked(t)]
    /\ UNCHANGED <<store, ret, call, local, readers>>

\* The deferred ls.lock.Unlock(), and the return; the readers that wait enter.
Unlock(t) ==
    /\ pc[t] = "unlock"
    /\ writer' = 0
    /\ readers' = {x \in Threads : pc[x] = "rwait"}
    /\ pc' = [x \in Threads |->
                IF x = t THEN "idle"
                ELSE IF pc[x] = "rwait" THEN "load"
                ELSE pc[x]]
    /\ local' = [local EXCEPT ![t] = returned(local[t])]
    /\ UNCHANGED <<store, ret, call>>

\* A goroutine inside the range of labelMatch keeps the ResourceMap it ranges
\* over when ls.resources is replaced.
detach(t) ==
    IF InRange(t) /\ ~local[t].detached
    THEN [local[t] EXCEPT !.snap = resources[call[t].query.Key], !.detached = TRUE]
    ELSE local[t]

\* Wipe: ls.resources = nil; ls.uuids = nil
WipeBody(t) ==
    /\ pc[t] = "wipe"
    /\ uuids' = <<>>
    /\ resources' = <<>>
    /\ mapsNil' = TRUE
    /\ local' = [x \in Threads |-> detach(x)]
    /\ pc' = [pc EXCEPT ![t] = "unlock"]
    /\ UNCHANGED <<ret, call, writer, readers>>

\* Clear: both maps made anew.
ClearBody(t) ==
    /\ pc[t] = "clear"
    /\ uuids' = <<>>
    /\ resources' = <<>>
    /\ mapsNil' = FALSE
    /\ local' = [x \in Threads |-> detach(x)]
    /\ pc' = [pc EXCEPT ![t] = "unlock"]
    /\ UNCHANGED <<ret, call, writer, readers>>

\* Update: find, and the return of ErrUpdateNoExist.
UpdateFind(t) ==
    /\ pc[t] = "update"
    /\ IF find(uuids, call[t].res.id)
       THEN /\ local' = [local EXCEPT ![t].oldRes = uuids[call[t].res.id],
                                      ![t].snap = resources]
            /\ pc' = [pc EXCEPT ![t] = "delete"]
       ELSE /\ local' = [local EXCEPT ![t].err = ErrUpdateNoExist]
            /\ pc' = [pc EXCEPT ![t] = "unlock"]
    /\ UNCHANGED <<store, ret, call, writer, readers>>

\* The resource delete is called with: res of Delete, oldRes of Update.
deleteArg(t) == IF call[t].op = "Update" THEN local[t].oldRes ELSE call[t].res

\* Update going on through the public Create, which takes the lock itself.
afterDelete_publicCreate(t) == IF call[t].op = "Update" THEN "lock" ELSE "unlock"

\* The position after delete returns.
afterDelete(t) == IF call[t].op = "Update" THEN "create" ELSE "unlock"

\* delete: find.
DeleteFind(t) ==
    /\ pc[t] = "delete"
    /\ IF find(uuids, deleteArg(t).id)
       THEN /\ local' = [local EXCEPT ![t].labels = DOMAIN deleteArg(t).labels]
            /\ pc' = [pc EXCEPT ![t] = "deleteLoop"]
       ELSE /\ local' = [local EXCEPT ![t].err = Nil]
            /\ pc' = [pc EXCEPT ![t] = afterDelete(t)]
    /\ UNCHANGED <<store, ret, call, writer, readers>>

\* delete: one iteration of the loop over the labels, or its end.
DeleteLoop(t) ==
    /\ pc[t] = "deleteLoop"
    /\ IF local[t].labels = {}
       THEN /\ pc' = [pc EXCEPT ![t] = afterDelete(t)]
            /\ local' = [local EXCEPT ![t].err = Nil]
            /\ UNCHANGED resources
       ELSE \E label \in local[t].labels :
              /\ resources' = deleteLabel(resources, deleteArg(t), label)
              /\ local' = [local EXCEPT ![t].labels = @ \ {label}]
              /\ pc' = pc
    /\ UNCHANGED <<uuids, mapsNil, ret, call, writer, readers>>

\* create: find, and the write of ls.uuids. Update drops the error of create.
CreateFind(t) ==
    /\ pc[t] = "create"
    /\ IF find(uuids, call[t].res.id)
       THEN /\ local' = [local EXCEPT ![t].err =
                            IF call[t].op = "Update" THEN Nil ELSE ErrCreateExists]
            /\ pc' = [pc EXCEPT ![t] = "unlock"]
            /\ UNCHANGED uuids
       ELSE IF mapsNil
       THEN /\ local' = [local EXCEPT ![t].err = Panic]
            /\ pc' = [pc EXCEPT ![t] = "unlock"]
            /\ UNCHANGED uuids
       ELSE /\ uuids' = putUuid(uuids, call[t].res)
            /\ local' = [local EXCEPT ![t].labels = DOMAIN call[t].res.labels]
            /\ pc' = [pc EXCEPT ![t] = "createLoop"]
    /\ UNCHANGED <<resources, mapsNil, ret, call, writer, readers>>

\* create: the end of the loop over the labels, or the beginning of one
\* iteration: for a key without ResourceMap the assignment of a new one, the
\* Add still to come; for a key that has one the Add.
CreateLoop(t) ==
    /\ pc[t] = "createLoop"
    /\ IF local[t].labels = {}
       THEN /\ pc' = [pc EXCEPT ![t] = "unlock"]
            /\ local' = [local EXCEPT ![t].err = Nil]
            /\ UNCHANGED resources
       ELSE \E label \in local[t].labels :
              IF label \notin DOMAIN resources
              THEN /\ resources' = newLabelMap(resources, label)
                   /\ local' = [local EXCEPT ![t].labels = @ \ {label},
                                             ![t].label = label]
                   /\ pc' = [pc EXCEPT ![t] = "createAdd"]
              ELSE /\ resources' = createLabel(resources, call[t].res, label)
                   /\ local' = [local EXCEPT ![t].labels = @ \ {label}]
                   /\ pc' = pc
    /\ UNCHANGED <<uuids, mapsNil, ret, call, writer, readers>>

\* create: ls.resources[label].Add(res, val) after the key's ResourceMap was made.
CreateAdd(t) ==
    /\ pc[t] = "createAdd"
    /\ resources' = createLabel(resources, call[t].res, local[t].label)
    /\ local' = [local EXCEPT ![t].label = ""]
    /\ pc' = [pc EXCEPT ![t] = "createLoop"]
    /\ UNCHANGED <<uuids, mapsNil, ret, call, writer, readers>>

\* ls.lock.RLock(): the read lock is held at once unless a writer holds the
\* lock or waits for the readers to leave; then the goroutine waits for Unlock.
RLock(t) ==
    /\ pc[t] = "rlock"
    /\ IF WriterPending
       THEN /\ readers' = readers
            /\ pc' = [pc EXCEPT ![t] = "rwait"]
       ELSE /\ readers' = readers \cup {t}
            /\ pc' = [pc EXCEPT ![t] = "load"]
    /\ UNCHANGED <<store, ret, call, local, writer>>

\* Load: the walk over the secondary index, under the read lock.
LoadBody(t) ==
    /\ pc[t] = "load"
    /\ local' = [local EXCEPT ![t].out = loadResult(resources)]
    /\ pc' = [pc EXCEPT ![t] = "runlock"]
    /\ UNCHANGED <<store, ret, call, writer, readers>>

\* The deferred ls.lock.RUnlock(), and the return.
RUnlock(t) ==
    /\ pc[t] = "runlock"
    /\ readers' = readers \ {t}
    /\ pc' = [pc EXCEPT ![t] = "idle"]
    /\ local' = [local EXCEPT ![t] = returned(local[t])]
    /\ UNCHANGED <<store, ret, call, writer>>

\* labelMatch, inVals: one iteration of the loop over query.Values, or return.
WalkIn(t) ==
    LET query == call[t].query
        i == local[t].i
    IN /\ pc[t] = "walk"
       /\ inVals(query)
       /\ IF i > Len(query.Values)
          THEN /\ pc' = [pc EXCEPT ![t] = "idle"]
               /\ local' = [local EXCEPT ![t] = returned(local[t])]
          ELSE IF bucketFaults(resources, query.Key, query.Values[i])
          THEN /\ pc' = [pc EXCEPT ![t] = "idle"]
               /\ local' = [local EXCEPT ![t] =
                     returned([local[t] EXCEPT !.err = Panic, !.out = EmptyMap,
                                               !.raced = @ \/ writer # 0])]
          ELSE LET bucket == resources[query.Key][query.Values[i]]
               IN /\ pc' = pc
                  /\ local' = [local EXCEPT
                        ![t].out = addAll(@, bucket),
                        ![t].i = i + 1,
                        ![t].raced = @ \/ writer # 0,
                        ![t].sawAbsent = @ \/ absentSeen(query.Key, query.Values[i], bucket)]
       /\ UNCHANGED <<store, ret, call, writer, readers>>

\* labelMatch, not inVals: the range over the buckets of the key begins (a nil
\* ResourceMap panics), visits one bucket, or ends. An entry made during
\* the range may be visited or skipped.
WalkNotIn(t) ==
    LET query == call[t].query
        l == local[t]
        map == IF l.detached THEN l.snap ELSE resources[query.Key]
    IN /\ pc[t] = "walk"
       /\ ~inVals(query)
       /\ \/ /\ l.i = 0
             /\ IF query.Key \notin DOMAIN resources
                THEN /\ pc' = [pc EXCEPT ![t] = "idle"]
                     /\ local' = [local EXCEPT ![t] =
                           returned([local[t] EXCEPT !.err = Panic,
                                                     !.raced = @ \/ writer # 0])]
                ELSE /\ pc' = pc
                     /\ local' = [local EXCEPT ![t].i = 1,
                                               ![t].todo = DOMAIN resources[query.Key],
                                               ![t].raced = @ \/ writer # 0]
          \/ /\ l.i = 1
             /\ l.todo = {}
             /\ pc' = [pc EXCEPT ![t] = "idle"]
             /\ local' = [local EXCEPT ![t] = returned(local[t])]
          \/ /\ l.i = 1
             /\ \E val \in l.todo \cup (DOMAIN map \ l.labels) :
                  /\ pc' = pc
                  /\ local' = [local EXCEPT
                        ![t].todo = @ \ {val},
                        ![t].labels = @ \cup {val},
                        ![t].out = IF ~isIn(val, query.Values) THEN addAll(@, map[val]) ELSE @,
                        ![t].raced = @ \/ writer # 0,
                        ![t].sawAbsent = @ \/ absentSeen(query.Key, val, map[val])]
       /\ UNCHANGED <<store, ret, call, writer, readers>>

\* A read of labelMatch that meets a map write of the goroutine holding the
\* write lock: the Go runtime may stop the program (concurrent map read and
\* map write).
WalkFatal(t) ==
    /\ pc[t] = "walk"
    /\ writer # 0
    /\ \/ pc[writer] \in {"createLoop", "deleteLoop"} /\ local[writer].labels # {}
       \/ pc[writer] = "createAdd"
    /\ pc' = [x \in Threads |-> "crashed"]
    /\ call' = [x \in Threads |-> NoConcCall]
    /\ local' = [x \in Threads |-> NoLocal]
    /\ UNCHANGED <<store, ret, writer, readers>>

NextConc ==
    \E t \in Threads :
        \/ \E c \in ConcWrites : BeginWrite(t, c)
        \/ BeginLoad(t)
        \/ CallInitialize(t)
        \/ \E query \in ConcQueries : BeginQuery(t, query)
        \/ Lock(t)
        \/ Drained(t)
        \/ Unlock(t)
        \/ WipeBody(t)
        \/ ClearBody(t)
        \/ UpdateFind(t)
        \/ DeleteFind(t)
        \/ DeleteLoop(t)
        \/ CreateFind(t)
        \/ CreateLoop(t)
        \/ CreateAdd(t)
        \/ RLock(t)
        \/ LoadBody(t)
        \/ RUnlock(t)
        \/ WalkIn(t)
        \/ WalkNotIn(t)
        \/ WalkFatal(t)

SpecConc == Init /\ [][NextConc]_vars

\* -------------------------------------------------------------- SpecFair
\* The goroutines call the methods that take ls.lock: Create, Update, Delete,
\* Clear, Wipe and Load.
NextLocking ==
    \E t \in Threads :
        \/ \E c \in ConcWrites : BeginWrite(t, c)
        \/ BeginLoad(t)
        \/ Lock(t)
        \/ Drained(t)
        \/ Unlock(t)
        \/ WipeBody(t)
        \/ ClearBody(t)
        \/ UpdateFind(t)
        \/ DeleteFind(t)
        \/ DeleteLoop(t)
        \/ CreateFind(t)
        \/ CreateLoop(t)
        \/ CreateAdd(t)
        \/ RLock(t)
        \/ LoadBody(t)
        \/ RUnlock(t)

\* The steps of goroutine t that wait for nothing.
Running(t) ==
    \/ Drained(t)
    \/ RLock(t)
    \/ Unlock(t)
    \/ WipeBody(t)
    \/ ClearBody(t)
    \/ UpdateFind(t)
    \/ DeleteFind(t)
    \/ DeleteLoop(t)
    \/ CreateFind(t)
    \/ CreateLoop(t)
    \/ CreateAdd(t)
    \/ LoadBody(t)
    \/ RUnlock(t)

\* The Go scheduler runs every runnable goroutine; the writers of a
\* sync.RWMutex queue on a sync.Mutex, which hands over to the longest waiter.
Fairness ==
    \A t \in Threads :
        /\ WF_vars(Running(t))
        /\ SF_vars(Lock(t))

SpecFair == Init /\ [][NextLocking]_vars /\ Fairness

\* ------------------------------------------------------------ claims, Spec
\* Whether a query result holds the resource res (a panic or a nil map holds none).
Includes(result, res) ==
    /\ result.err = Nil
    /\ res.type \in DOMAIN result.out
    /\ res \in result.out[res.type]

\* Whether a query result holds a resource with the identifier id.
IncludesId(result, id) ==
    /\ result.err = Nil
    /\ \E x \in Flat(result.out) : x.id = id

EqualQuery(k, v) == [Op |-> MatchEqual, Key |-> k, Values |-> <<v>>]

\* The (key, value) pairs of a label set.
Pairs(labels) == {<<k, labels[k]>> : k \in DOMAIN labels}

\* C1. Index consistency: after a successful Create(R), Query(MatchEqual, k, [v])
\* includes R for every label (k, v) of R; after a Delete(R) that returned
\* success, none of these queries includes R.
C1_IndexConsistency ==
    /\ (ret.op = "Create" /\ ret.err = Nil) =>
          \A p \in Pairs(ret.res.labels) :
              Includes(queryResult(resources, EqualQuery(p[1], p[2])), ret.res)
    /\ (ret.op = "Delete" /\ ret.err = Nil) =>
          \A p \in Pairs(ret.res.labels) :
              ~Includes(queryResult(resources, EqualQuery(p[1], p[2])), ret.res)

\* C1 witness: a successful Delete(R) of the stored R, which has two labels
\* and was in the bucket of both when Delete began, and is now in the result
\* of neither query.
C1_Witness ==
    /\ ret.op = "Delete" /\ ret.err = Nil /\ ret.found /\ ret.indexed
    /\ ret.old = ret.res
    /\ Cardinality(DOMAIN ret.res.labels) = 2
    /\ \A p \in Pairs(ret.res.labels) :
          ~Includes(queryResult(resources, EqualQuery(p[1], p[2])), ret.res)

\* C2. Update atomicity (as claimed): after a successful Update(R') that replaces
\* R (same identifier, other labels), no query against a pair only R had includes
\* the resource, and every query against a pair of R' includes R'.
C2_UpdateAtomicity_Claimed ==
    (ret.op = "Update" /\ ret.err = Nil /\ ret.old.labels # ret.res.labels) =>
        /\ \A p \in Pairs(ret.old.labels) \ Pairs(ret.res.labels) :
              ~IncludesId(queryResult(resources, EqualQuery(p[1], p[2])), ret.res.id)
        /\ \A p \in Pairs(ret.res.labels) :
              Includes(queryResult(resources, EqualQuery(p[1], p[2])), ret.res)

\* Whether some bucket of the labels of res holds a resource with its identifier.
InOwnBuckets(r, res) ==
    \E k \in DOMAIN res.labels :
        /\ k \in DOMAIN r
        /\ res.labels[k] \in DOMAIN r[k]
        /\ \E x \in r[k][res.labels[k]] : x.id = res.id

\* C3. Delete (as claimed): after a successful Delete(R) whose identifier was
\* present, the identifier is no longer in the primary index and R is in none
\* of the buckets of its labels.
C3_DeleteRemoves_Claimed ==
    (ret.op = "Delete" /\ ret.err = Nil /\ ret.found) =>
        /\ ~find(uuids, ret.res.id)
        /\ ~InOwnBuckets(resources, ret.res)

\* Whether res is a member of the bucket (k, v).
InBucket(r, res, k, v) == k \in DOMAIN r /\ v \in DOMAIN r[k] /\ res \in r[k][v]

\* Whether res is the resource the primary index holds for its identifier.
Stored(u, res) == find(u, res.id) /\ u[res.id] = res

\* C4. Lock-step invariant (as claimed): between operations a resource is a
\* member of bucket (k, v) iff it is in the primary index and its labels map k to v.
C4_LockStep_Claimed ==
    \A res \in Resources, k \in Keys, v \in Vals :
        InBucket(resources, res, k, v) <=>
            (Stored(uuids, res) /\ k \in DOMAIN res.labels /\ res.labels[k] = v)

\* C5. Uniqueness: a Create of a resource that passes its validation and whose
\* identifier is in the primary index fails with ErrCreateExists and changes
\* neither index nor the result of any query.
C5_Uniqueness ==
    [][(ret'.op = "Create" /\ ret'.res.valid /\ find(uuids, ret'.res.id)) =>
          /\ ret'.err = ErrCreateExists
          /\ uuids' = uuids
          /\ resources' = resources
          /\ \A q \in Queries : queryResult(resources', q) = queryResult(resources, q)]_vars

\* C5 witness: a Create rejected for a stored identifier, with other labels
\* than the stored resource has.
C5_Witness ==
    /\ ret.op = "Create" /\ ret.err = ErrCreateExists /\ ret.found
    /\ ret.old.labels # ret.res.labels
    /\ ret.old.labels # <<>>

\* C8. Unknown-key safety (as claimed): on a Ready engine a Query whose key has
\* no entry in the secondary index returns no resource and does not fault.
C8_UnknownKey_Claimed ==
    (ret.op = "Query" /\ ~mapsNil /\ ret.query.Key \notin DOMAIN resources) =>
        /\ ret.err # Panic
        /\ Flat(ret.out) = {}

\* C9. Absent-value safety (as claimed): for an indexed key, MatchIn (and
\* MatchEqual with one value) does not fault on a value without bucket and
\* returns exactly the resources of the values that have one.
C9_AbsentValue_Claimed ==
    (/\ ret.op = "Query"
     /\ ret.query.Key \in DOMAIN resources
     /\ \/ ret.query.Op = MatchIn
        \/ ret.query.Op = MatchEqual /\ Len(ret.query.Values) = 1) =>
        /\ ret.err = Nil
        /\ Flat(ret.out) =
             UNION {resources[ret.query.Key][v] :
                      v \in {ret.query.Values[i] : i \in 1..Len(ret.query.Values)}
                              \cap DOMAIN resources[ret.query.Key]}

\* C10. Complementarity (as claimed): in every Ready state, for every indexed
\* key k and every list V, MatchIn(k, V) and MatchNotIn(k, V) are disjoint and
\* their union is the set of stored resources that carry k.
C10_Complementarity_Claimed ==
    ~mapsNil =>
        \A k \in DOMAIN resources, V \in ValueLists :
            LET in == queryResult(resources, [Op |-> MatchIn, Key |-> k, Values |-> V])
                notIn == queryResult(resources, [Op |-> MatchNotIn, Key |-> k, Values |-> V])
            IN /\ in.err = Nil
               /\ notIn.err = Nil
               /\ Flat(in.out) \cap Flat(notIn.out) = {}
               /\ Flat(in.out) \cup Flat(notIn.out) =
                     {uuids[i] : i \in {j \in DOMAIN uuids : k \in DOMAIN uuids[j].labels}}

\* The resources that are a member of some bucket.
Members(r) == UNION {UNION {r[k][v] : v \in DOMAIN r[k]} : k \in DOMAIN r}

\* C11. Update-nonexistence: an Update with a valid resource whose identifier
\* is not in the primary index fails with ErrUpdateNoExist and changes neither
\* index.
C11_UpdateNonexistence ==
    [][(ret'.op = "Update" /\ ret'.res.valid /\ ~find(uuids, ret'.res.id)) =>
          /\ ret'.err = ErrUpdateNoExist
          /\ uuids' = uuids
          /\ resources' = resources
          /\ mapsNil' = mapsNil]_vars

\* C11 witness: an Update rejected for an identifier that is not stored while
\* the primary index holds another resource and the buckets are not all empty.
C11_Witness ==
    /\ ret.op = "Update" /\ ret.err = ErrUpdateNoExist /\ ~ret.found
    /\ ret.res.labels # <<>>
    /\ DOMAIN uuids # {}
    /\ Members(resources) # {}

\* C12. Delete-idempotence: a Delete with a valid resource whose identifier is
\* not in the primary index returns success and changes neither index; a Delete
\* of the resource the preceding Delete was given leaves the engine as that
\* Delete left it.
C12_DeleteIdempotence ==
    [][/\ (ret'.op = "Delete" /\ ret'.res.valid /\ ~find(uuids, ret'.res.id)) =>
             /\ ret'.err = Nil
             /\ uuids' = uuids
             /\ resources' = resources
             /\ mapsNil' = mapsNil
       /\ (ret.op = "Delete" /\ ret'.op = "Delete" /\ ret'.res = ret.res) =>
             /\ ret'.err = ret.err
             /\ uuids' = uuids
             /\ resources' = resources
             /\ mapsNil' = mapsNil]_vars

\* C12 witness: a Delete of an identifier that is not stored, given a resource
\* with labels, on an engine that stores another resource in a bucket.
C12_Witness ==
    /\ ret.op = "Delete" /\ ret.err = Nil /\ ~ret.found
    /\ ret.res.labels # <<>>
    /\ DOMAIN uuids # {}
    /\ Members(resources) # {}

\* The resources of the primary index.
StoredResources(u) == {u[i] : i \in DOMAIN u}

\* The export the claim C13 describes: one entry per (key, value) pair some
\* stored resource carries, holding the stored resources that carry the pair.
ExpectedLoad(u) ==
    LET pairs == UNION {Pairs(x.labels) : x \in StoredResources(u)}
    IN [s \in {loadKey(p[1], p[2]) : p \in pairs} |->
          {x \in StoredResources(u) :
              \E p \in Pairs(x.labels) : loadKey(p[1], p[2]) = s}]

\* C13. Load export (as claimed): on a Ready engine Load returns exactly one
\* entry "<key> = <value>" per pair that a stored resource carries, holding
\* exactly the stored resources with that pair, and no other entry.
C13_LoadExport_Claimed ==
    (ret.op = "Load" /\ ~mapsNil) => ret.out = ExpectedLoad(uuids)

\* C17. Invalid query: a Query with MatchEqual or MatchNotEqual and a number of
\* values other than one, or with an operator outside the four defined ones,
\* returns nil (no matches, no fault from reading an index) and changes
\* neither index, in every engine state.
C17_InvalidQuery ==
    [][(/\ ret'.op = "Query"
        /\ \/ ret'.query.Op \in {MatchEqual, MatchNotEqual} /\ Len(ret'.query.Values) # 1
           \/ ret'.query.Op \notin {MatchEqual, MatchNotEqual, MatchIn, MatchNotIn}) =>
          /\ ret'.err = NilMap
          /\ ret'.out = EmptyMap
          /\ uuids' = uuids
          /\ resources' = resources
          /\ mapsNil' = mapsNil]_vars

\* C17 witness: a MatchEqual query with two values that returned nil although
\* the key is indexed and the buckets of its values hold resources.
C17_Witness ==
    /\ ret.op = "Query" /\ ret.err = NilMap
    /\ ret.query.Op = MatchEqual
    /\ Len(ret.query.Values) = 2
    /\ ret.query.Key \in DOMAIN resources
    /\ \E i \in 1..2 :
          /\ ret.query.Values[i] \in DOMAIN resources[ret.query.Key]
          /\ resources[ret.query.Key][ret.query.Values[i]] # {}

\* Ready (as C15 defines it): both indices exist, and a Create of a resource
\* whose identifier is not stored succeeds and is queryable by each of its labels.
Ready(u, r, n) ==
    /\ ~n
    /\ \A res \in Resources :
          ~find(u, res.id) =>
              LET st == create(State(u, r, n), res)
              IN /\ st.err = Nil
                 /\ \A p \in Pairs(res.labels) :
                       Includes(queryResult(st.resources, EqualQuery(p[1], p[2])), res)

\* C14. Construction from a snapshot (as claimed): right after NewLabelStore
\* every resource of the snapshot is in the primary index (a Create with its
\* identifier fails with ErrCreateExists, an Update with its identifier does not
\* fail with ErrUpdateNoExist) and is in the bucket of each of its labels.
C14_SnapshotSeedsBoth_Claimed ==
    ret.op = "New" =>
        \A res \in Flat(ret.out) :
            /\ Stored(uuids, res)
            /\ create(State(uuids, resources, mapsNil), res).err = ErrCreateExists
            /\ update(State(uuids, resources, mapsNil), res).err # ErrUpdateNoExist
            /\ \A p \in Pairs(res.labels) : InBucket(resources, res, p[1], p[2])

\* C15. Lifecycle (as claimed): from the Wiped state each of Initialize and
\* Clear brings the engine to Ready; Wipe takes a Ready engine to Wiped; Create,
\* Update, Delete, Query and Load keep a Ready engine Ready.
C15_Lifecycle_Claimed ==
    [][/\ (mapsNil /\ ret'.op \in {"Initialize", "Clear"}) => Ready(uuids', resources', mapsNil')
       /\ (~mapsNil /\ ret'.op = "Wipe") => mapsNil'
       /\ (~mapsNil /\ ret'.op \in {"Create", "Update", "Delete", "Query", "Load"}) =>
             ~mapsNil']_vars

\* C18. Delete (as claimed): after a Delete(X) whose identifier is present
\* and whose labels differ from those of the stored resource, no bucket holds
\* a resource with that identifier.
C18_DeleteAllEntries_Claimed ==
    (ret.op = "Delete" /\ ret.err = Nil /\ ret.found /\ ret.old.labels # ret.res.labels) =>
        \A x \in Members(resources) : x.id # ret.res.id

\* C19. Update (as claimed): whenever Update(R') returns success, the primary
\* index maps the identifier to R', so that a Delete of the identifier works
\* from the labels of R'.
C19_UpdateInstalls_Claimed ==
    (ret.op = "Update" /\ ret.err = Nil) =>
        /\ Stored(uuids, ret.res)
        /\ delete(State(uuids, resources, mapsNil), uuids[ret.res.id]).resources =
              deleteLabels(resources, ret.res, DOMAIN ret.res.labels)

\* --------------------------------------------------------- claims, SpecConc
\* C6. Query under shared access (as claimed): no Query reads the indices
\* while a goroutine is between acquiring and releasing the write lock.
C6_QueryExcludesWriter_Claimed ==
    \A t \in Threads : ~local[t].raced

\* C7. Update (as claimed): while an Update of a stored identifier is in
\* progress, no reader sees the resource of that identifier absent.
C7_UpdateNoAbsence_Claimed ==
    \A t \in Threads : ~local[t].sawAbsent

\* Whether c is a Create, Update or Delete of a resource that fails Validate.
InvalidCall(c) == c.op \in {"Create", "Update", "Delete"} /\ Validate(c.res) # Nil

\* C16. Validation precedes mutation: a Create, Update or Delete of a resource
\* that fails its validation returns the validation error in the step that
\* calls it, without waiting for or taking the write lock, and that step
\* changes neither index.
C16_ValidationFirst ==
    [][\A t \in Threads :
          /\ InvalidCall(call'[t]) =>
                /\ pc'[t] = "idle"
                /\ writer' # t
                /\ local'[t].err = Validate(call'[t].res)
          /\ (InvalidCall(call'[t]) /\ <<call'[t], local'[t]>> # <<call[t], local[t]>>) =>
                /\ uuids' = uuids
                /\ resources' = resources
                /\ mapsNil' = mapsNil
                /\ writer' = writer]_vars

\* C16 witness: the two goroutines have returned the validation error, one
\* from a Create of an identifier that is not stored, the other from an Update
\* of an identifier that is stored and in a bucket under other labels.
C16_Witness ==
    \E t, x \in Threads :
        /\ pc[t] = "idle" /\ pc[x] = "idle"
        /\ call[t].op = "Create" /\ ~call[t].res.valid
        /\ local[t].err = ErrValidate
        /\ ~find(uuids, call[t].res.id)
        /\ call[x].op = "Update" /\ ~call[x].res.valid
        /\ local[x].err = ErrValidate
        /\ find(uuids, call[x].res.id)
        /\ uuids[call[x].res.id].labels # call[x].res.labels
        /\ \E y \in Members(resources) : y.id = call[x].res.id

\* Whether a goroutine has returned the validation error from a Delete of
\* a stored and indexed identifier while another goroutine holds the write lock.
C16_DeleteRejectedUnderLock ==
    \E t \in Threads :
        /\ pc[t] = "idle"
        /\ call[t].op = "Delete"
        /\ ~call[t].res.valid
        /\ local[t].err = ErrValidate
        /\ writer \notin {0, t}
        /\ find(uuids, call[t].res.id)
        /\ \E y \in Members(resources) : y.id = call[t].res.id

\* ---------------------------------------------------------- claims, SpecFair
\* C20. Progress: every call of Create, Update, Delete, Clear, Wipe or Load
\* eventually returns with the lock it took released; no goroutine waits for
\* the lock while it holds it.
C20_Progress ==
    /\ [](\A t \in Threads :
             (writer = t \/ t \in readers) =>
                 pc[t] \notin {"idle", "lock", "drain", "rlock", "rwait"})
    /\ \A t \in Threads :
          (pc[t] # "idle") ~> (pc[t] = "idle" /\ writer # t /\ t \notin readers)

\* C20 witness: an Update that found the identifier is inside its internal
\* create step, holding the write lock, while another goroutine waits for it.
C20_Witness ==
    \E t, x \in Threads :
        /\ call[t].op = "Update"
        /\ pc[t] \in {"create", "createLoop", "createAdd"}
        /\ local[t].oldRes # NoResource
        /\ writer = t
        /\ pc[x] \in {"lock", "rwait"}

====
